---- MODULE Spec2Model ----
(***************************************************************************)
(* Model of the two session servers of the repository:                     *)
(*   MultiClient-Chat-App/chat_server.py  (registry, broadcast, FILE|)     *)
(*   Sharing-App/file_server.py           (UPLOAD| / DOWNLOAD| / LIST)     *)
(* Byte strings are sequences of one-character strings; a socket is a pair *)
(* of byte queues; the file system is a map from resolved paths to bytes.  *)
(***************************************************************************)
EXTENDS Integers, Sequences, FiniteSets, TLC

\* ------------------------------------------------------------------ bounds
MaxConn == 2
\* most segments a client's byte stream is cut into in the framing runs
MaxSeg == 3

\* ------------------------------------------------------- program constants
BUFFER_SIZE == 4096

Conn == 1..MaxConn
\* thread 0 is the main thread (accept loop); thread c handles connection c
MAIN == 0
Threads == 0..MaxConn
NoThread == -1
NoConn == 0

\* --------------------------------------------------- byte-string helpers
Range(s) == {s[i] : i \in 1..Len(s)}

Min(a, b) == IF a < b THEN a ELSE b

Take(s, n) == SubSeq(s, 1, Min(n, Len(s)))

Drop(s, n) == SubSeq(s, Min(n, Len(s)) + 1, Len(s))

\* bytes.startswith / str.startswith
StartsWith(s, p) == Len(s) >= Len(p) /\ SubSeq(s, 1, Len(p)) = p

\* index of the first ch in s, 0 when there is none
IndexOf(s, ch) ==
  IF \E i \in 1..Len(s) : s[i] = ch
  THEN CHOOSE i \in 1..Len(s) : s[i] = ch /\ \A j \in 1..(i - 1) : s[j] # ch
  ELSE 0

\* index of the last ch in s, 0 when there is none
LastIndexOf(s, ch) ==
  IF \E i \in 1..Len(s) : s[i] = ch
  THEN CHOOSE i \in 1..Len(s) : s[i] = ch /\ \A j \in (i + 1)..Len(s) : s[j] # ch
  ELSE 0

\* s.split(ch, maxsplit): at most maxsplit cuts, left to right
RECURSIVE SplitMax(_, _, _)
SplitMax(s, ch, maxsplit) ==
  IF maxsplit = 0 \/ IndexOf(s, ch) = 0
  THEN <<s>>
  ELSE <<SubSeq(s, 1, IndexOf(s, ch) - 1)>>
         \o SplitMax(SubSeq(s, IndexOf(s, ch) + 1, Len(s)), ch, maxsplit - 1)

Whitespace == {" ", "\n", "\r", "\t"}

RECURSIVE LStrip(_)
LStrip(s) == IF s # <<>> /\ s[1] \in Whitespace THEN LStrip(Tail(s)) ELSE s

RECURSIVE RStrip(_)
RStrip(s) ==
  IF s # <<>> /\ s[Len(s)] \in Whitespace THEN RStrip(SubSeq(s, 1, Len(s) - 1)) ELSE s

\* str.strip()
Strip(s) == RStrip(LStrip(s))

Digits == <<"0", "1", "2", "3", "4", "5", "6", "7", "8", "9">>

IsDigit(ch) == \E i \in 1..10 : Digits[i] = ch

DigitVal(ch) == (CHOOSE i \in 1..10 : Digits[i] = ch) - 1

RECURSIVE DigitsVal(_)
DigitsVal(s) ==
  IF s = <<>> THEN 0 ELSE 10 * DigitsVal(SubSeq(s, 1, Len(s) - 1)) + DigitVal(s[Len(s)])

\* int(s): surrounding whitespace and one sign are accepted, then decimal
\* digits; anything else raises ValueError (ok = FALSE)
IntBody(s) == IF s # <<>> /\ s[1] \in {"+", "-"} THEN Tail(s) ELSE s

IntOk(s) ==
  LET b == IntBody(Strip(s)) IN b # <<>> /\ \A i \in 1..Len(b) : IsDigit(b[i])

IntVal(s) ==
  LET t == Strip(s) IN
    IF t[1] = "-" THEN 0 - DigitsVal(IntBody(t)) ELSE DigitsVal(IntBody(t))

\* str(n) as an f-string formats it
RECURSIVE NatStr(_)
NatStr(n) == IF n < 10 THEN <<Digits[n + 1]>> ELSE NatStr(n \div 10) \o <<Digits[(n % 10) + 1]>>

IntStr(n) == IF n < 0 THEN <<"-">> \o NatStr(0 - n) ELSE NatStr(n)

\* ------------------------------------------------------------ path helpers
\* os.path.basename on POSIX: what follows the last "/"
Basename(name) == SubSeq(name, LastIndexOf(name, "/") + 1, Len(name))

\* os.path.join(dir, name) on POSIX
PathJoin(dir, name) ==
  IF name # <<>> /\ name[1] = "/" THEN name
  ELSE IF dir # <<>> /\ dir[Len(dir)] = "/" THEN dir \o name
  ELSE dir \o <<"/">> \o name

\* the transfer directory (UPLOAD_DIR of the chat server, SHARED_DIR of the
\* file server): the directory /u of a file system whose root also exists
TransferDir == <<"/", "u">>

\* a path string resolved by the operating system: its components, with
\* "" and "." skipped and ".." going to the parent
RECURSIVE ResolveParts(_, _)
ResolveParts(parts, acc) ==
  IF parts = <<>> THEN acc
  ELSE LET p == Head(parts) IN
    IF p = <<>> \/ p = <<".">> THEN ResolveParts(Tail(parts), acc)
    ELSE IF p = <<".", ".">>
      THEN ResolveParts(Tail(parts), IF acc = <<>> THEN acc ELSE SubSeq(acc, 1, Len(acc) - 1))
      ELSE ResolveParts(Tail(parts), Append(acc, p))

Resolve(path) == ResolveParts(SplitMax(path, "/", Len(path)), <<>>)

\* the directories that exist: / and /u
Dirs == {<<>>, <<<<"u">>>>}

ParentOf(r) == SubSeq(r, 1, Len(r) - 1)

\* whether open(path, "wb") succeeds: not a directory, and in one that exists
CanOpenWrite(path) ==
  LET r == Resolve(path) IN
    /\ r \notin Dirs
    /\ path[Len(path)] # "/"
    /\ ParentOf(r) \in Dirs


\* write data at offset 0 of a file that holds old (a fresh descriptor opened
\* "wb" starts at offset 0; bytes past the written range stay)
WriteAt(old, data) == data \o SubSeq(old, Len(data) + 1, Len(old))

RemoveAt(s, i) == SubSeq(s, 1, i - 1) \o SubSeq(s, i + 1, Len(s))

\* -------------------------------------------------------------- wire text
FILE_MARK == <<"F", "I", "L", "E", "|">>

NickPrompt == <<"N", "I", "C", "K", "\n">>

ConnectedLine == <<"[ok] Connected to chat server.\n">>

ErrInvalidHeader == <<"ERROR|", "Invalid file header\n">>

ErrInvalidSize == <<"ERROR|", "Invalid file size\n">>

Unknown == <<"Unknown">>

JoinMsg(nick) == <<"[join] ">> \o nick \o <<" joined the chat.\n">>

LeftMsg(nick) == <<"[left] ">> \o nick \o <<" left the chat.\n">>

UploadMsg(sender, base, size) ==
  <<"[upload] ">> \o sender \o <<" uploaded file: ">> \o base
    \o <<" (">> \o IntStr(size) \o <<" bytes)\n">>

\* ------------------------------------------------------------------ state
VARIABLES
  \* the clients and the operating system
  peer,       \* peer[c]: "absent", "new", "open", "eof" (half-closed), "reset"
  sock,       \* sock[c]: the server's handle, "none", "open" or "closed"
  inbuf,      \* inbuf[c]: bytes that arrived and were not read yet
  script,     \* script[c]: what the client still does (segments, fin, rst)
  out,        \* out[c]: the payloads of the sends that reached the client
  fs,         \* resolved path -> content of the file there
  plan,       \* plan[c]: the requests client c makes (script encodes them)
  \* the server process
  clients,    \* chat_server.clients
  nicknames,  \* chat_server.nicknames
  lock,       \* the thread that holds the registry lock, or NoThread
  pc,         \* pc[t]: where thread t is
  acc,        \* locals of the accept loop: client_socket, nick
  hl,         \* hl[c]: locals of handler c
  bc,         \* bc[t]: the frame of thread t's call of broadcast
  crashed     \* the main thread ended with an unhandled exception

envvars == <<peer, sock, inbuf, script, out, fs, plan>>
srvvars == <<clients, nicknames, lock, pc, acc, hl, bc, crashed>>
vars == <<peer, sock, inbuf, script, out, fs, plan,
          clients, nicknames, lock, pc, acc, hl, bc, crashed>>

\* ----------------------------------------------------------------- sockets
\* socket.send / sendall on connection c returns (it raises on a reset peer
\* and on a handle that was closed)
SendOk(c) == sock[c] = "open" /\ peer[c] \in {"open", "eof"}

\* socket.recv on connection c returns or raises instead of blocking
RecvReady(c) == inbuf[c] # <<>> \/ peer[c] \in {"eof", "reset"}

RecvRaises(c) == peer[c] = "reset"

SentMutant(c, msg) == [out EXCEPT ![c] = <<msg>> \o @]
Sent(c, msg) == [out EXCEPT ![c] = Append(@, msg)]

\* the client has received the line that confirms the connection
Confirmed(c) == \E i \in 1..Len(out[c]) : out[c][i] = ConnectedLine

\* the events of the script a plan stands for: the nickname, the segments, the end
ScriptLen(p) ==
  (IF p.nick = <<>> THEN 0 ELSE 1)
    + (IF p.reqs = <<>> THEN 0 ELSE Len(p.cuts) + 1)
    + (IF p.end \in {"fin", "rst"} THEN 1 ELSE 0)

\* a client's step: the next event of its script
DataEv(b) == [k |-> "data", b |-> b]
FinEv == [k |-> "fin", b |-> <<>>]
RstEv == [k |-> "rst", b |-> <<>>]

ClientConnect(c) ==
  /\ peer[c] = "new"
  /\ peer' = [peer EXCEPT ![c] = "open"]
  /\ UNCHANGED <<sock, inbuf, script, out, fs, plan>>
  /\ UNCHANGED srvvars

ClientSend(c) ==
  /\ peer[c] = "open"
  /\ script[c] # <<>>
  /\ Head(script[c]).k = "data"
  /\ (plan[c].wait /\ Len(script[c]) < ScriptLen(plan[c])) => Confirmed(c)
  /\ inbuf' = [inbuf EXCEPT ![c] = @ \o Head(script[c]).b]
  /\ script' = [script EXCEPT ![c] = Tail(@)]
  /\ UNCHANGED <<peer, sock, out, fs, plan>>
  /\ UNCHANGED srvvars

ClientShutdown(c) ==
  /\ peer[c] = "open"
  /\ script[c] # <<>>
  /\ Head(script[c]).k = "fin"
  /\ peer' = [peer EXCEPT ![c] = "eof"]
  /\ script' = [script EXCEPT ![c] = Tail(@)]
  /\ UNCHANGED <<sock, inbuf, out, fs, plan>>
  /\ UNCHANGED srvvars

ClientReset(c) ==
  /\ peer[c] = "open"
  /\ script[c] # <<>>
  /\ Head(script[c]).k = "rst"
  /\ peer' = [peer EXCEPT ![c] = "reset"]
  /\ inbuf' = [inbuf EXCEPT ![c] = <<>>]
  /\ script' = [script EXCEPT ![c] = Tail(@)]
  /\ UNCHANGED <<sock, out, fs, plan>>
  /\ UNCHANGED srvvars

\* ------------------------------------------------------------- file system
IsFile(path) == Resolve(path) \in DOMAIN fs /\ path[Len(path)] # "/"

FsPut(r, content) == [p \in DOMAIN fs \cup {r} |-> IF p = r THEN content ELSE fs[p]]

\* open(path, "wb"): the file is created or truncated
FsOpenedMutant(path) ==
  FsPut(Resolve(path), IF Resolve(path) \in DOMAIN fs THEN fs[Resolve(path)] ELSE <<>>)
FsOpened(path) == FsPut(Resolve(path), <<>>)

\* the buffered writes of a descriptor reach the file when it is closed
FsFlushed(path, data) ==
  FsPut(Resolve(path),
        WriteAt(IF Resolve(path) \in DOMAIN fs THEN fs[Resolve(path)] ELSE <<>>, data))


\* ==================================================== chat_server.py ====
NoFrame == [msg |-> <<>>, excl |-> NoConn, i |-> 1, ret |-> "", st |-> "idle",
            snap |-> <<>>, wrote |-> <<>>, stale |-> FALSE, failed |-> <<>>]

NoLocals == [name |-> <<>>, size |-> 0, rem |-> 0, buf |-> <<>>, msg |-> <<>>,
             hdr |-> <<>>, line |-> <<>>, off |-> 0, res |-> "none", files |-> <<>>]

\* thread t calls broadcast(msg, exclude) and goes on at ret when it returns;
\* snap, wrote, stale and failed record, for the properties, the registry as it
\* was when the lock was taken, the handles a send was attempted on, whether one
\* of them was closed already or no longer registered, and the handles whose
\* send raised
BroadcastCall(t, msg, excl, ret) ==
  /\ bc' = [bc EXCEPT ![t] = [msg |-> msg, excl |-> excl, i |-> 1, ret |-> ret,
                              st |-> "waiting", snap |-> <<>>, wrote |-> <<>>,
                              stale |-> FALSE, failed |-> <<>>]]
  /\ pc' = [pc EXCEPT ![t] = "bc_lock"]

\* the holder of the registry lock while broadcast writes to the sockets:
\* "with lock:" spans the whole loop
FanOutLockMutant(t) == NoThread
FanOutLock(t) == t

\* broadcast, "with lock:" - a threading.Lock is not reentrant: the thread
\* that holds it blocks here like any other
BroadcastLock(t) ==
  /\ ~crashed
  /\ pc[t] = "bc_lock"
  /\ lock = NoThread
  /\ lock' = FanOutLock(t)
  /\ pc' = [pc EXCEPT ![t] = "bc_loop"]
  /\ bc' = [bc EXCEPT ![t].st = "running", ![t].snap = clients, ![t].i = 1]
  /\ UNCHANGED <<clients, nicknames, acc, hl, crashed>>
  /\ UNCHANGED envvars

\* whether an exception of client.send ends the loop: "except Exception: pass"
SendErrorEndsLoopMutant == TRUE
SendErrorEndsLoop == FALSE

\* one iteration of "for client in clients": send, errors ignored
BroadcastSend(t) ==
  /\ ~crashed
  /\ pc[t] = "bc_loop"
  /\ bc[t].i <= Len(clients)
  /\ LET client == clients[bc[t].i] IN
       IF client # bc[t].excl
       THEN /\ out' = IF SendOk(client) THEN Sent(client, bc[t].msg) ELSE out
            /\ bc' = [bc EXCEPT ![t].i = IF ~SendOk(client) /\ SendErrorEndsLoop
                                          THEN Len(clients) + 1 ELSE @ + 1,
                                ![t].wrote = Append(@, client),
                                ![t].stale = @ \/ sock[client] # "open"
                                               \/ IndexOf(clients, client) = 0,
                                ![t].failed = IF SendOk(client) THEN @
                                              ELSE Append(@, client)]
       ELSE /\ out' = out
            /\ bc' = [bc EXCEPT ![t].i = @ + 1]
  /\ UNCHANGED <<peer, sock, inbuf, script, fs, plan>>
  /\ UNCHANGED <<clients, nicknames, lock, pc, acc, hl, crashed>>

\* the loop is over: the lock is released and broadcast returns. When the
\* caller is remove_client, its own "with lock:" ends with it and the handler
\* thread is over
BroadcastReturn(t) ==
  /\ ~crashed
  /\ pc[t] = "bc_loop"
  /\ bc[t].i > Len(clients)
  /\ lock' = IF lock = t THEN NoThread ELSE lock
  /\ bc' = [bc EXCEPT ![t].st = "done"]
  /\ pc' = [pc EXCEPT ![t] = IF bc[t].ret = "rm_exit" THEN "done" ELSE bc[t].ret]
  /\ UNCHANGED <<clients, nicknames, acc, hl, crashed>>
  /\ UNCHANGED envvars

\* ---- accept_connections
\* an exception in the accept loop is not caught anywhere: it ends the main
\* thread, and with it the process (the handler threads are daemons)
MainRaises ==
  /\ crashed' = TRUE
  /\ pc' = [pc EXCEPT ![MAIN] = "crashed"]

Accept ==
  /\ ~crashed
  /\ pc[MAIN] = "accept"
  /\ \E c \in Conn :
       /\ peer[c] \notin {"absent", "new"}
       /\ sock[c] = "none"
       /\ sock' = [sock EXCEPT ![c] = "open"]
       /\ acc' = [cur |-> c, nick |-> <<>>]
  /\ pc' = [pc EXCEPT ![MAIN] = "nick_send"]
  /\ UNCHANGED <<peer, inbuf, script, out, fs, plan>>
  /\ UNCHANGED <<clients, nicknames, lock, hl, bc, crashed>>

NickSend ==
  /\ ~crashed
  /\ pc[MAIN] = "nick_send"
  /\ IF SendOk(acc.cur)
     THEN /\ out' = Sent(acc.cur, NickPrompt)
          /\ pc' = [pc EXCEPT ![MAIN] = "nick_recv"]
          /\ UNCHANGED crashed
     ELSE /\ MainRaises
          /\ UNCHANGED out
  /\ UNCHANGED <<peer, sock, inbuf, script, fs, plan>>
  /\ UNCHANGED <<clients, nicknames, lock, acc, hl, bc>>

NickRecv ==
  /\ ~crashed
  /\ pc[MAIN] = "nick_recv"
  /\ RecvReady(acc.cur)
  /\ IF RecvRaises(acc.cur)
     THEN /\ MainRaises
          /\ UNCHANGED <<inbuf, acc>>
     ELSE /\ acc' = [acc EXCEPT !.nick = Strip(Take(inbuf[acc.cur], BUFFER_SIZE))]
          /\ inbuf' = [inbuf EXCEPT ![acc.cur] = Drop(@, BUFFER_SIZE)]
          /\ pc' = [pc EXCEPT ![MAIN] = "reg_lock"]
          /\ UNCHANGED crashed
  /\ UNCHANGED <<peer, sock, script, out, fs, plan>>
  /\ UNCHANGED <<clients, nicknames, lock, hl, bc>>

RegisterLock ==
  /\ ~crashed
  /\ pc[MAIN] = "reg_lock"
  /\ lock = NoThread
  /\ lock' = MAIN
  /\ pc' = [pc EXCEPT ![MAIN] = "reg_clients"]
  /\ UNCHANGED <<clients, nicknames, acc, hl, bc, crashed>>
  /\ UNCHANGED envvars

RegisterClient ==
  /\ ~crashed
  /\ pc[MAIN] = "reg_clients"
  /\ clients' = Append(clients, acc.cur)
  /\ pc' = [pc EXCEPT ![MAIN] = "reg_nick"]
  /\ UNCHANGED <<nicknames, lock, acc, hl, bc, crashed>>
  /\ UNCHANGED envvars

\* the session left out of the join notice of connection c: broadcast is
\* called without an exclude argument
JoinExcludeMutant(c) == c
JoinExclude(c) == NoConn

\* nicknames.append(nick): the nickname goes to the end of the list, at the
\* index the handle got in clients
NickAppendedMutant(nicks, nick) == <<nick>> \o nicks
NickAppended(nicks, nick) == Append(nicks, nick)

\* nicknames.append(nick), the lock is released, broadcast(joined) is called
RegisterNick ==
  /\ ~crashed
  /\ pc[MAIN] = "reg_nick"
  /\ nicknames' = NickAppended(nicknames, acc.nick)
  /\ lock' = NoThread
  /\ BroadcastCall(MAIN, JoinMsg(acc.nick), JoinExclude(acc.cur), "conf_send")
  /\ UNCHANGED <<clients, acc, hl, crashed>>
  /\ UNCHANGED envvars

ConfirmSend ==
  /\ ~crashed
  /\ pc[MAIN] = "conf_send"
  /\ IF SendOk(acc.cur)
     THEN /\ out' = Sent(acc.cur, ConnectedLine)
          /\ pc' = [pc EXCEPT ![MAIN] = "spawn"]
          /\ UNCHANGED crashed
     ELSE /\ MainRaises
          /\ UNCHANGED out
  /\ UNCHANGED <<peer, sock, inbuf, script, fs, plan>>
  /\ UNCHANGED <<clients, nicknames, lock, acc, hl, bc>>

\* threading.Thread(target=handle_client, ...).start()
Spawn ==
  /\ ~crashed
  /\ pc[MAIN] = "spawn"
  /\ pc' = [pc EXCEPT ![MAIN] = "accept", ![acc.cur] = "recv"]
  /\ UNCHANGED <<clients, nicknames, lock, acc, hl, bc, crashed>>
  /\ UNCHANGED envvars


\* ---- handle_client
\* header, rest = data.split(b"\n", 1), or (data.strip(), b"") without "\n"
HeaderOf(data) ==
  IF IndexOf(data, "\n") > 0 THEN SubSeq(data, 1, IndexOf(data, "\n") - 1) ELSE Strip(data)

RestOfMutant(data) == <<>>
RestOf(data) ==
  IF IndexOf(data, "\n") > 0 THEN SubSeq(data, IndexOf(data, "\n") + 1, Len(data)) ELSE <<>>

\* safe_name = os.path.basename(filename); out_path = join(UPLOAD_DIR, safe_name)
ChatSafeName(filename) == Basename(filename)

ChatOutPath(filename) == PathJoin(TransferDir, ChatSafeName(filename))

\* the finally clause: remove_client(client_socket)
HandlerExits(c) == pc' = [pc EXCEPT ![c] = "rm_lock"]

\* data = client_socket.recv(BUFFER_SIZE) and the dispatch on it
HandleRecv(c) ==
  /\ ~crashed
  /\ pc[c] = "recv"
  /\ RecvReady(c)
  /\ IF RecvRaises(c)
     THEN /\ HandlerExits(c)
          /\ UNCHANGED <<inbuf, hl, bc>>
     ELSE LET data == Take(inbuf[c], BUFFER_SIZE)
              parts == SplitMax(HeaderOf(data), "|", 2)
          IN
          /\ inbuf' = [inbuf EXCEPT ![c] = Drop(@, BUFFER_SIZE)]
          /\ IF data = <<>>
             THEN /\ HandlerExits(c)
                  /\ UNCHANGED <<hl, bc>>
             ELSE IF StartsWith(data, FILE_MARK)
             THEN IF Len(parts) # 3
                  THEN /\ hl' = [hl EXCEPT ![c].msg = ErrInvalidHeader]
                       /\ pc' = [pc EXCEPT ![c] = "err_send"]
                       /\ UNCHANGED bc
                  ELSE IF ~IntOk(parts[3])
                  THEN /\ hl' = [hl EXCEPT ![c].msg = ErrInvalidSize]
                       /\ pc' = [pc EXCEPT ![c] = "err_send"]
                       /\ UNCHANGED bc
                  ELSE /\ hl' = [hl EXCEPT ![c].name = parts[2],
                                            ![c].size = IntVal(parts[3]),
                                            ![c].rem = IntVal(parts[3]),
                                            ![c].buf = RestOf(data)]
                       /\ pc' = [pc EXCEPT ![c] = "rf_open"]
                       /\ UNCHANGED bc
             ELSE /\ BroadcastCall(c, data, NoConn, "recv")
                  /\ UNCHANGED hl
  /\ UNCHANGED <<peer, sock, script, out, fs, plan>>
  /\ UNCHANGED <<clients, nicknames, lock, acc, crashed>>

\* client_socket.send("ERROR|...") and continue
HandleErrorSend(c) ==
  /\ ~crashed
  /\ pc[c] = "err_send"
  /\ IF SendOk(c)
     THEN /\ out' = Sent(c, hl[c].msg)
          /\ pc' = [pc EXCEPT ![c] = "recv"]
     ELSE /\ HandlerExits(c)
          /\ UNCHANGED out
  /\ UNCHANGED <<peer, sock, inbuf, script, fs, plan>>
  /\ UNCHANGED <<clients, nicknames, lock, acc, hl, bc, crashed>>

\* receive_file_with_initial: open(out_path, "wb"), the initial bytes written
ReceiveFileOpen(c) ==
  /\ ~crashed
  /\ pc[c] = "rf_open"
  /\ IF CanOpenWrite(ChatOutPath(hl[c].name))
     THEN /\ fs' = FsOpened(ChatOutPath(hl[c].name))
          /\ hl' = [hl EXCEPT ![c].rem = hl[c].size - Len(hl[c].buf)]
          /\ pc' = [pc EXCEPT ![c] = "rf_loop"]
     ELSE /\ HandlerExits(c)
          /\ UNCHANGED <<fs, hl>>
  /\ UNCHANGED <<peer, sock, inbuf, script, out, plan>>
  /\ UNCHANGED <<clients, nicknames, lock, acc, bc, crashed>>

\* while remaining > 0: chunk = recv(min(BUFFER_SIZE, remaining)). An
\* exception leaves the "with open" block, which closes (and flushes) the file
ReceiveFileRecv(c) ==
  /\ ~crashed
  /\ pc[c] = "rf_loop"
  /\ hl[c].rem > 0
  /\ RecvReady(c)
  /\ IF RecvRaises(c)
     THEN /\ fs' = FsFlushed(ChatOutPath(hl[c].name), hl[c].buf)
          /\ HandlerExits(c)
          /\ UNCHANGED <<inbuf, hl>>
     ELSE LET chunk == Take(inbuf[c], Min(BUFFER_SIZE, hl[c].rem)) IN
          /\ inbuf' = [inbuf EXCEPT ![c] = Drop(@, Min(BUFFER_SIZE, hl[c].rem))]
          /\ IF chunk = <<>>
             THEN /\ pc' = [pc EXCEPT ![c] = "rf_close"]
                  /\ UNCHANGED hl
             ELSE /\ hl' = [hl EXCEPT ![c].buf = @ \o chunk, ![c].rem = @ - Len(chunk)]
                  /\ UNCHANGED pc
          /\ UNCHANGED fs
  /\ UNCHANGED <<peer, sock, script, out, plan>>
  /\ UNCHANGED <<clients, nicknames, lock, acc, bc, crashed>>

\* the end of the "with open" block: the file is closed
ReceiveFileClose(c) ==
  /\ ~crashed
  /\ \/ pc[c] = "rf_loop" /\ hl[c].rem <= 0
     \/ pc[c] = "rf_close"
  /\ fs' = FsFlushed(ChatOutPath(hl[c].name), hl[c].buf)
  /\ pc' = [pc EXCEPT ![c] = "up_lock"]
  /\ UNCHANGED <<peer, sock, inbuf, script, out, plan>>
  /\ UNCHANGED <<clients, nicknames, lock, acc, hl, bc, crashed>>

UploadLock(c) ==
  /\ ~crashed
  /\ pc[c] = "up_lock"
  /\ lock = NoThread
  /\ lock' = c
  /\ pc' = [pc EXCEPT ![c] = "up_lookup"]
  /\ UNCHANGED <<clients, nicknames, acc, hl, bc, crashed>>
  /\ UNCHANGED envvars

\* sender = nicknames[clients.index(client_socket)] or "Unknown"; the lock is
\* released and broadcast(uploaded) is called
UploadLookup(c) ==
  /\ ~crashed
  /\ pc[c] = "up_lookup"
  /\ lock' = NoThread
  /\ LET sender == IF IndexOf(clients, c) > 0 THEN nicknames[IndexOf(clients, c)]
                   ELSE Unknown
     IN BroadcastCall(c, UploadMsg(sender, Basename(ChatOutPath(hl[c].name)), hl[c].size),
                      NoConn, "recv")
  /\ UNCHANGED <<clients, nicknames, acc, hl, crashed>>
  /\ UNCHANGED envvars

\* ---- remove_client
RemoveLock(c) ==
  /\ ~crashed
  /\ pc[c] = "rm_lock"
  /\ lock = NoThread
  /\ lock' = c
  /\ pc' = [pc EXCEPT ![c] = "rm_body"]
  /\ UNCHANGED <<clients, nicknames, acc, hl, bc, crashed>>
  /\ UNCHANGED envvars

\* the body of "with lock:": the entry is removed, the socket closed and
\* broadcast(left) called with the lock still held
RemoveBody(c) ==
  /\ ~crashed
  /\ pc[c] = "rm_body"
  /\ IF IndexOf(clients, c) > 0
     THEN /\ clients' = RemoveAt(clients, IndexOf(clients, c))
          /\ nicknames' = RemoveAt(nicknames, IndexOf(clients, c))
          /\ sock' = [sock EXCEPT ![c] = "closed"]
          /\ BroadcastCall(c, LeftMsg(nicknames[IndexOf(clients, c)]), NoConn, "rm_exit")
          /\ UNCHANGED lock
     ELSE /\ lock' = NoThread
          /\ pc' = [pc EXCEPT ![c] = "done"]
          /\ UNCHANGED <<clients, nicknames, sock, bc>>
  /\ UNCHANGED <<peer, inbuf, script, out, fs, plan>>
  /\ UNCHANGED <<acc, hl, crashed>>

\* ---- the chat server and its clients
ChatNext ==
  \/ \E c \in Conn : ClientConnect(c)
  \/ \E c \in Conn : ClientSend(c)
  \/ \E c \in Conn : ClientShutdown(c)
  \/ \E c \in Conn : ClientReset(c)
  \/ Accept
  \/ NickSend
  \/ NickRecv
  \/ RegisterLock
  \/ RegisterClient
  \/ RegisterNick
  \/ ConfirmSend
  \/ Spawn
  \/ \E t \in Threads : BroadcastLock(t)
  \/ \E t \in Threads : BroadcastSend(t)
  \/ \E t \in Threads : BroadcastReturn(t)
  \/ \E c \in Conn : HandleRecv(c)
  \/ \E c \in Conn : HandleErrorSend(c)
  \/ \E c \in Conn : ReceiveFileOpen(c)
  \/ \E c \in Conn : ReceiveFileRecv(c)
  \/ \E c \in Conn : ReceiveFileClose(c)
  \/ \E c \in Conn : UploadLock(c)
  \/ \E c \in Conn : UploadLookup(c)
  \/ \E c \in Conn : RemoveLock(c)
  \/ \E c \in Conn : RemoveBody(c)

\* ------------------------------------------------------------ the clients
\* One request of a client. chat: a line; file / upload: a header declaring
\* size, then data (send_file, upload); download, list: a header; raw: bytes
Req(op, name, size, data) == [op |-> op, name |-> name, size |-> size, data |-> data]

UPLOAD_MARK == <<"U", "P", "L", "O", "A", "D", "|">>
DOWNLOAD_MARK == <<"D", "O", "W", "N", "L", "O", "A", "D", "|">>
LIST_LINE == <<"L", "I", "S", "T">>

\* the bytes the client sends for a request (chat_client.py, file_client.py)
Encode(r) ==
  CASE r.op = "file" -> FILE_MARK \o r.name \o <<"|">> \o IntStr(r.size) \o <<"\n">> \o r.data
    [] r.op = "upload" -> UPLOAD_MARK \o r.name \o <<"|">> \o IntStr(r.size) \o <<"\n">> \o r.data
    [] r.op = "download" -> DOWNLOAD_MARK \o r.name \o <<"\n">>
    [] r.op = "list" -> LIST_LINE \o <<"\n">>
    [] OTHER -> r.data

RECURSIVE Stream(_)
Stream(reqs) == IF reqs = <<>> THEN <<>> ELSE Encode(Head(reqs)) \o Stream(Tail(reqs))

\* the stream cut after the positions cuts into the segments that arrive
RECURSIVE Segments(_, _, _)
Segments(stream, cuts, start) ==
  IF cuts = <<>>
  THEN IF start > Len(stream) THEN <<>> ELSE <<DataEv(SubSeq(stream, start, Len(stream)))>>
  ELSE <<DataEv(SubSeq(stream, start, cuts[1]))>> \o Segments(stream, Tail(cuts), cuts[1] + 1)

\* the increasing sequences of at most k positions of lo..hi
RECURSIVE Cuts(_, _, _)
Cuts(lo, hi, k) ==
  IF k = 0 THEN {<<>>}
  ELSE {<<>>} \cup UNION {{<<i>> \o r : r \in Cuts(i + 1, hi, k - 1)} : i \in lo..hi}

\* a client: the nickname it answers the prompt with (none: it sends nothing),
\* its requests, how the stream of them is cut, and how it ends
Plan(nick, reqs, cuts, end) ==
  [nick |-> nick, reqs |-> reqs, cuts |-> cuts, end |-> end, wait |-> FALSE]

\* the same client, but one that makes its requests only once it has received
\* the line that confirms the connection
Patient(p) == [p EXCEPT !.wait = TRUE]

ScriptOf(p) ==
  (IF p.nick = <<>> THEN <<>> ELSE <<DataEv(p.nick)>>)
    \o Segments(Stream(p.reqs), p.cuts, 1)
    \o (CASE p.end = "fin" -> <<FinEv>> [] p.end = "rst" -> <<RstEv>> [] OTHER -> <<>>)

NickCh == <<"a", "b", "c", "d">>
NickOf(c) == <<NickCh[c]>>
ChatLine == <<"h", "i", "\n">>
BadHeader == FILE_MARK \o <<"f", "\n">>

IdlePlan == Plan(<<>>, <<>>, <<>>, "open")

\* what a client of the concurrency runs does
ConcPlans(c) ==
  { Plan(NickOf(c), <<Req("chat", <<>>, 0, ChatLine)>>, <<>>, "fin"),
    Plan(NickOf(c), <<>>, <<>>, "rst"),
    Plan(<<>>, <<>>, <<>>, "rst"),
    Plan(<<>>, <<>>, <<>>, "fin"),
    Plan(NickOf(c), <<Req("file", <<"f">>, 1, <<"x">>)>>, <<9>>, "fin"),
    Plan(NickOf(c), <<Req("file", <<"f">>, 1, <<>>)>>, <<>>, "fin"),
    Plan(NickOf(c), <<Req("raw", <<>>, 0, BadHeader)>>, <<>>, "open") }

\* one plan for each client
ChatPlans ==
  {f \in [Conn -> UNION {ConcPlans(c) : c \in Conn}] : \A c \in Conn : f[c] \in ConcPlans(c)}

EnvInit ==
  /\ script = [c \in Conn |-> ScriptOf(plan[c])]
  /\ sock = [c \in Conn |-> "none"]
  /\ inbuf = [c \in Conn |-> <<>>]
  /\ out = [c \in Conn |-> <<>>]
  /\ fs = [p \in {} |-> <<>>]

SrvInit ==
  /\ clients = <<>>
  /\ nicknames = <<>>
  /\ lock = NoThread
  /\ acc = [cur |-> NoConn, nick |-> <<>>]
  /\ hl = [c \in Conn |-> NoLocals]
  /\ bc = [t \in Threads |-> NoFrame]
  /\ crashed = FALSE

\* the chat server with MaxConn clients
Init ==
  /\ plan \in ChatPlans
  /\ peer = [c \in Conn |-> "new"]
  /\ pc = [t \in Threads |-> IF t = MAIN THEN "accept" ELSE "idle"]
  /\ EnvInit
  /\ SrvInit

Spec == Init /\ [][ChatNext]_vars

\* the chat server with clients that may send two chat lines, one after the
\* other, each client its own
LineCh == <<<<"p", "q">>, <<"r", "s">>, <<"t", "v">>, <<"w", "z">>>>

LineOf(c, k) == <<LineCh[c][k], "\n">>

TwoLines(c) ==
  Patient(Plan(NickOf(c), <<Req("chat", <<>>, 0, LineOf(c, 1)),
                            Req("chat", <<>>, 0, LineOf(c, 2))>>, <<2>>, "fin"))

OrderPlans ==
  {f \in [Conn -> UNION {ConcPlans(c) \cup {TwoLines(c)} : c \in Conn}] :
     \A c \in Conn : f[c] \in ConcPlans(c) \cup {TwoLines(c)}}

OrderInit ==
  /\ plan \in OrderPlans
  /\ peer = [c \in Conn |-> "new"]
  /\ pc = [t \in Threads |-> IF t = MAIN THEN "accept" ELSE "idle"]
  /\ EnvInit
  /\ SrvInit

OrderSpec == OrderInit /\ [][ChatNext]_vars

\* the steps of thread t of the chat server
ChatThread(t) ==
  \/ BroadcastLock(t)
  \/ BroadcastSend(t)
  \/ BroadcastReturn(t)
  \/ t = MAIN /\ (Accept \/ NickSend \/ NickRecv \/ RegisterLock \/ RegisterClient
                    \/ RegisterNick \/ ConfirmSend \/ Spawn)
  \/ t \in Conn /\ (HandleRecv(t) \/ HandleErrorSend(t) \/ ReceiveFileOpen(t)
                      \/ ReceiveFileRecv(t) \/ ReceiveFileClose(t) \/ UploadLock(t)
                      \/ UploadLookup(t) \/ RemoveLock(t) \/ RemoveBody(t))

\* the chat server with one client whose stream is cut in every way
UploadBodies == <<"x", "y">>

FrameReqs ==
  {<<Req("file", <<"f">>, n, Take(UploadBodies, n))>> : n \in 0..2}
    \cup {<<Req("file", <<"f">>, n, Take(UploadBodies, n)), Req("chat", <<>>, 0, ChatLine)>> :
            n \in 0..2}
    \cup {<<Req("file", <<".", ".", "/", "e">>, 1, <<"x">>)>>}

FramePlans ==
  UNION {{Patient(Plan(NickOf(1), r, k, "fin")) :
            k \in Cuts(1, Len(Stream(r)) - 1, MaxSeg - 1)} : r \in FrameReqs}
    \cup {Patient(Plan(NickOf(1), <<Req("file", <<"f">>, 2, <<"x">>)>>, <<>>, "rst"))}

FrameInit ==
  /\ \E p \in FramePlans : plan = [c \in Conn |-> IF c = 1 THEN p ELSE IdlePlan]
  /\ peer = [c \in Conn |-> IF c = 1 THEN "new" ELSE "absent"]
  /\ pc = [t \in Threads |-> IF t = MAIN THEN "accept" ELSE "idle"]
  /\ EnvInit
  /\ SrvInit

FrameSpec == FrameInit /\ [][ChatNext]_vars


\* ==================================================== file_server.py ====
OkLine(name) == <<"O", "K", "|">> \o name \o <<"\n">>

NotFoundLine == <<"N", "O", "T", "F", "O", "U", "N", "D", "\n">>

FOUND_MARK == <<"F", "O", "U", "N", "D", "|">>

FoundLine(size) == FOUND_MARK \o IntStr(size) \o <<"\n">>

DoneLine == <<"D", "O", "N", "E">>

ErrUnknown == <<"ERROR|", "Unknown command\n">>

\* "\n".join(names)
RECURSIVE Join(_)
Join(names) ==
  IF names = <<>> THEN <<>>
  ELSE IF Len(names) = 1 THEN names[1]
  ELSE names[1] \o <<"\n">> \o Join(Tail(names))

\* payload = "\n".join(files) + "\nDONE\n"
ListPayloadMutant(files) == Join(files) \o DoneLine \o <<"\n">>
ListPayload(files) == Join(files) \o <<"\n">> \o DoneLine \o <<"\n">>

\* os.listdir(SHARED_DIR): the names in the directory, in some order
DirNames == {p[Len(p)] : p \in {q \in DOMAIN fs : ParentOf(q) = Resolve(TransferDir)}}

Orders(S) ==
  {o \in [1..Cardinality(S) -> S] : \A i, j \in 1..Cardinality(S) : o[i] = o[j] => i = j}

\* safe_name = os.path.basename(filename); the path is join(SHARED_DIR, safe_name)
FileSafeNameMutant(filename) == filename
FileSafeName(filename) == Basename(filename)

FilePath(filename) == PathJoin(TransferDir, FileSafeName(filename))

\* recv_all asks for min(BUFFER_SIZE, size - len(data)) bytes
RecvAllWantMutant(size, have) == BUFFER_SIZE
RecvAllWant(size, have) == Min(BUFFER_SIZE, size - have)

\* the while loop of the main thread: accept, and a thread for the connection
FileAccept ==
  /\ pc[MAIN] = "fs_accept"
  /\ \E c \in Conn :
       /\ peer[c] \notin {"absent", "new"}
       /\ sock[c] = "none"
       /\ sock' = [sock EXCEPT ![c] = "open"]
       /\ pc' = [pc EXCEPT ![c] = "fs_hdr"]
  /\ UNCHANGED <<peer, inbuf, script, out, fs, plan>>
  /\ UNCHANGED <<clients, nicknames, lock, acc, hl, bc, crashed>>

\* the handler is over, by return or by an exception (which is caught and
\* printed): finally conn.close()
FileHandlerEnds(c) ==
  /\ pc' = [pc EXCEPT ![c] = "done"]
  /\ sock' = [sock EXCEPT ![c] = "closed"]

\* what the handler does with a complete header line
FileDispatch(c, line) ==
  LET up == SplitMax(line, "|", 2) IN
  IF StartsWith(line, UPLOAD_MARK)
  THEN IF Len(up) # 3 \/ ~IntOk(up[Len(up)])
       THEN /\ hl' = [hl EXCEPT ![c].hdr = <<>>, ![c].line = line, ![c].res = "none"]
            /\ FileHandlerEnds(c)
       ELSE /\ hl' = [hl EXCEPT ![c].hdr = <<>>, ![c].line = line, ![c].res = "none",
                                ![c].name = up[2], ![c].size = IntVal(up[3]),
                                ![c].buf = <<>>]
            /\ pc' = [pc EXCEPT ![c] = "fs_recv_all"]
            /\ UNCHANGED sock
  ELSE IF StartsWith(line, DOWNLOAD_MARK)
  THEN /\ hl' = [hl EXCEPT ![c].hdr = <<>>, ![c].line = line, ![c].res = "none",
                           ![c].name = SplitMax(line, "|", 1)[2]]
       /\ pc' = [pc EXCEPT ![c] = "fs_isfile"]
       /\ UNCHANGED sock
  ELSE IF line = LIST_LINE
  THEN /\ hl' = [hl EXCEPT ![c].hdr = <<>>, ![c].line = line, ![c].res = "none"]
       /\ pc' = [pc EXCEPT ![c] = "fs_list"]
       /\ UNCHANGED sock
  ELSE /\ hl' = [hl EXCEPT ![c].hdr = <<>>, ![c].line = line, ![c].res = "none",
                           ![c].msg = ErrUnknown]
       /\ pc' = [pc EXCEPT ![c] = "fs_send"]
       /\ UNCHANGED sock

\* the header loop, chunk = conn.recv(1) until the header holds "\n": the
\* bytes that have arrived are read one after the other, up to the newline
FileReadHeader(c) ==
  /\ pc[c] = "fs_hdr"
  /\ RecvReady(c)
  /\ IF RecvRaises(c) \/ inbuf[c] = <<>>
     THEN /\ FileHandlerEnds(c)
          /\ UNCHANGED <<inbuf, hl>>
     ELSE LET nl == IndexOf(inbuf[c], "\n")
              n == IF nl > 0 THEN nl ELSE Len(inbuf[c])
          IN
          /\ inbuf' = [inbuf EXCEPT ![c] = Drop(@, n)]
          /\ IF nl = 0
             THEN /\ hl' = [hl EXCEPT ![c].hdr = @ \o Take(inbuf[c], n)]
                  /\ UNCHANGED <<pc, sock>>
             ELSE FileDispatch(c, Strip(hl[c].hdr \o Take(inbuf[c], n)))
  /\ UNCHANGED <<peer, script, out, fs, plan>>
  /\ UNCHANGED <<clients, nicknames, lock, acc, bc, crashed>>

\* recv_all: while len(data) < size: packet = sock.recv(...)
FileRecvAll(c) ==
  /\ pc[c] = "fs_recv_all"
  /\ Len(hl[c].buf) < hl[c].size
  /\ RecvReady(c)
  /\ IF RecvRaises(c)
     THEN /\ FileHandlerEnds(c)
          /\ UNCHANGED <<inbuf, hl>>
     ELSE LET packet == Take(inbuf[c], RecvAllWant(hl[c].size, Len(hl[c].buf))) IN
          /\ inbuf' = [inbuf EXCEPT ![c] = Drop(@, RecvAllWant(hl[c].size, Len(hl[c].buf)))]
          /\ IF packet = <<>>
             THEN /\ pc' = [pc EXCEPT ![c] = "fs_open"]
                  /\ UNCHANGED hl
             ELSE /\ hl' = [hl EXCEPT ![c].buf = @ \o packet]
                  /\ UNCHANGED pc
          /\ UNCHANGED sock
  /\ UNCHANGED <<peer, script, out, fs, plan>>
  /\ UNCHANGED <<clients, nicknames, lock, acc, bc, crashed>>

\* open(save_path, "wb")
FileOpen(c) ==
  /\ \/ pc[c] = "fs_recv_all" /\ Len(hl[c].buf) >= hl[c].size
     \/ pc[c] = "fs_open"
  /\ IF CanOpenWrite(FilePath(hl[c].name))
     THEN /\ fs' = FsOpened(FilePath(hl[c].name))
          /\ pc' = [pc EXCEPT ![c] = "fs_write"]
          /\ UNCHANGED sock
     ELSE /\ FileHandlerEnds(c)
          /\ UNCHANGED fs
  /\ UNCHANGED <<peer, inbuf, script, out, plan>>
  /\ UNCHANGED <<clients, nicknames, lock, acc, hl, bc, crashed>>

\* f.write(file_bytes) and the end of the "with open" block
FileWrite(c) ==
  /\ pc[c] = "fs_write"
  /\ fs' = FsFlushed(FilePath(hl[c].name), hl[c].buf)
  /\ hl' = [hl EXCEPT ![c].msg = OkLine(FileSafeName(hl[c].name))]
  /\ pc' = [pc EXCEPT ![c] = "fs_send"]
  /\ UNCHANGED <<peer, sock, inbuf, script, out, plan>>
  /\ UNCHANGED <<clients, nicknames, lock, acc, bc, crashed>>

\* conn.sendall of OK|name, NOTFOUND or ERROR|Unknown command
FileSend(c) ==
  /\ pc[c] = "fs_send"
  /\ IF SendOk(c)
     THEN /\ out' = Sent(c, hl[c].msg)
          /\ pc' = [pc EXCEPT ![c] = "fs_hdr"]
          /\ UNCHANGED sock
     ELSE /\ FileHandlerEnds(c)
          /\ UNCHANGED out
  /\ UNCHANGED <<peer, inbuf, script, fs, plan>>
  /\ UNCHANGED <<clients, nicknames, lock, acc, hl, bc, crashed>>

\* os.path.isfile(file_path)
FileIsFile(c) ==
  /\ pc[c] = "fs_isfile"
  /\ IF IsFile(FilePath(hl[c].name))
     THEN /\ pc' = [pc EXCEPT ![c] = "fs_getsize"]
          /\ UNCHANGED hl
     ELSE /\ pc' = [pc EXCEPT ![c] = "fs_send"]
          /\ hl' = [hl EXCEPT ![c].msg = NotFoundLine]
  /\ UNCHANGED <<peer, sock, inbuf, script, out, fs, plan>>
  /\ UNCHANGED <<clients, nicknames, lock, acc, bc, crashed>>

\* size = os.path.getsize(file_path)
FileGetSize(c) ==
  /\ pc[c] = "fs_getsize"
  /\ hl' = [hl EXCEPT ![c].size = Len(fs[Resolve(FilePath(hl[c].name))]),
                      ![c].msg = FoundLine(Len(fs[Resolve(FilePath(hl[c].name))]))]
  /\ pc' = [pc EXCEPT ![c] = "fs_found"]
  /\ UNCHANGED <<peer, sock, inbuf, script, out, fs, plan>>
  /\ UNCHANGED <<clients, nicknames, lock, acc, bc, crashed>>

\* conn.sendall(FOUND|size); the file is opened for reading
FileSendFound(c) ==
  /\ pc[c] = "fs_found"
  /\ IF SendOk(c)
     THEN /\ out' = Sent(c, hl[c].msg)
          /\ hl' = [hl EXCEPT ![c].off = 0]
          /\ pc' = [pc EXCEPT ![c] = "fs_dl_read"]
          /\ UNCHANGED sock
     ELSE /\ FileHandlerEnds(c)
          /\ UNCHANGED <<out, hl>>
  /\ UNCHANGED <<peer, inbuf, script, fs, plan>>
  /\ UNCHANGED <<clients, nicknames, lock, acc, bc, crashed>>

\* while chunk := f.read(BUFFER_SIZE): conn.sendall(chunk)
FileDownloadRead(c) ==
  /\ pc[c] = "fs_dl_read"
  /\ LET content == fs[Resolve(FilePath(hl[c].name))]
         chunk == SubSeq(content, hl[c].off + 1, Min(hl[c].off + BUFFER_SIZE, Len(content)))
     IN
     IF chunk = <<>>
     THEN /\ hl' = [hl EXCEPT ![c].res = "found"]
          /\ pc' = [pc EXCEPT ![c] = "fs_hdr"]
          /\ UNCHANGED <<out, sock>>
     ELSE IF SendOk(c)
     THEN /\ out' = Sent(c, chunk)
          /\ hl' = [hl EXCEPT ![c].off = @ + Len(chunk)]
          /\ UNCHANGED <<pc, sock>>
     ELSE /\ FileHandlerEnds(c)
          /\ UNCHANGED <<out, hl>>
  /\ UNCHANGED <<peer, inbuf, script, fs, plan>>
  /\ UNCHANGED <<clients, nicknames, lock, acc, bc, crashed>>

\* files = os.listdir(SHARED_DIR); conn.sendall(payload)
FileList(c) ==
  /\ pc[c] = "fs_list"
  /\ \E files \in Orders(DirNames) :
       IF SendOk(c)
       THEN /\ out' = Sent(c, ListPayload(files))
            /\ hl' = [hl EXCEPT ![c].files = files, ![c].msg = ListPayload(files),
                                ![c].res = "list"]
            /\ pc' = [pc EXCEPT ![c] = "fs_hdr"]
            /\ UNCHANGED sock
       ELSE /\ FileHandlerEnds(c)
            /\ UNCHANGED <<out, hl>>
  /\ UNCHANGED <<peer, inbuf, script, fs, plan>>
  /\ UNCHANGED <<clients, nicknames, lock, acc, bc, crashed>>

FileNext ==
  \/ \E c \in Conn : ClientConnect(c)
  \/ \E c \in Conn : ClientSend(c)
  \/ \E c \in Conn : ClientShutdown(c)
  \/ \E c \in Conn : ClientReset(c)
  \/ FileAccept
  \/ \E c \in Conn : FileReadHeader(c)
  \/ \E c \in Conn : FileRecvAll(c)
  \/ \E c \in Conn : FileOpen(c)
  \/ \E c \in Conn : FileWrite(c)
  \/ \E c \in Conn : FileSend(c)
  \/ \E c \in Conn : FileIsFile(c)
  \/ \E c \in Conn : FileGetSize(c)
  \/ \E c \in Conn : FileSendFound(c)
  \/ \E c \in Conn : FileDownloadRead(c)
  \/ \E c \in Conn : FileList(c)

NameA == <<"a">>
NameE == <<".", ".", "/", "e">>
NameUp == <<".", ".">>
BadUpload == UPLOAD_MARK \o <<"a", "\n">>
Hello == <<"H", "I", "\n">>

\* what a client of the file server does
FilePlans(c) ==
  { Plan(<<>>, <<Req("upload", NameA, 2, <<"x", "y">>), Req("download", NameA, 0, <<>>)>>,
         <<12>>, "fin"),
    Plan(<<>>, <<Req("upload", NameA, 0, <<>>), Req("download", NameA, 0, <<>>)>>, <<>>, "fin"),
    Plan(<<>>, <<Req("upload", NameE, 1, <<"z">>), Req("download", NameE, 0, <<>>)>>,
         <<>>, "fin"),
    Plan(<<>>, <<Req("list", <<>>, 0, <<>>)>>, <<>>, "fin"),
    Plan(<<>>, <<Req("download", NameA, 0, <<>>)>>, <<>>, "fin"),
    Plan(<<>>, <<Req("download", NameA, 0, <<>>)>>, <<>>, "rst"),
    Plan(<<>>, <<Req("raw", <<>>, 0, BadUpload), Req("list", <<>>, 0, <<>>)>>, <<>>, "fin"),
    Plan(<<>>, <<Req("upload", NameA, 1, <<"w">>), Req("list", <<>>, 0, <<>>)>>, <<>>, "fin"),
    Plan(<<>>, <<Req("upload", NameUp, 1, <<"x">>)>>, <<>>, "fin"),
    Plan(<<>>, <<Req("upload", NameA, 2, <<"x">>)>>, <<>>, "fin"),
    Plan(<<>>, <<Req("raw", <<>>, 0, Hello)>>, <<>>, "fin") }

FilePlanSets ==
  {f \in [Conn -> UNION {FilePlans(c) : c \in Conn}] : \A c \in Conn : f[c] \in FilePlans(c)}

FileInit ==
  /\ plan \in FilePlanSets
  /\ peer = [c \in Conn |-> "new"]
  /\ pc = [t \in Threads |-> IF t = MAIN THEN "fs_accept" ELSE "idle"]
  /\ EnvInit
  /\ SrvInit

FileSpec == FileInit /\ [][FileNext]_vars

\* the file server with clients that may upload twice to one name and list
TwoUploads ==
  Plan(<<>>, <<Req("upload", NameA, 2, <<"x", "y">>), Req("upload", NameA, 1, <<"w">>),
               Req("list", <<>>, 0, <<>>)>>, <<>>, "fin")

OverwritePlans ==
  {f \in [Conn -> UNION {FilePlans(c) \cup {TwoUploads} : c \in Conn}] :
     \A c \in Conn : f[c] \in FilePlans(c) \cup {TwoUploads}}

OverwriteInit ==
  /\ plan \in OverwritePlans
  /\ peer = [c \in Conn |-> "new"]
  /\ pc = [t \in Threads |-> IF t = MAIN THEN "fs_accept" ELSE "idle"]
  /\ EnvInit
  /\ SrvInit

OverwriteSpec == OverwriteInit /\ [][FileNext]_vars

\* either server with its clients: the chat server, or the file server
StoreInit == FrameInit \/ FileInit

StoreNext == ChatNext \/ FileNext

StoreSpec == StoreInit /\ [][StoreNext]_vars

\* file_client.download: the reply line is read up to "\n", then size bytes
NotFound == <<"N", "O", "T", "F", "O", "U", "N", "D">>

ClientDownload(stream) ==
  LET nl == IndexOf(stream, "\n")
      line == Strip(Take(stream, nl))
      size == IntVal(SplitMax(line, "|", 1)[2])
  IN
  IF nl = 0 THEN [kind |-> "none", size |-> 0, body |-> <<>>, rest |-> stream]
  ELSE IF line = NotFound
  THEN [kind |-> "notfound", size |-> 0, body |-> <<>>, rest |-> Drop(stream, nl)]
  ELSE IF StartsWith(line, FOUND_MARK)
  THEN [kind |-> "found", size |-> size, body |-> Take(Drop(stream, nl), size),
        rest |-> Drop(stream, nl + size)]
  ELSE [kind |-> "other", size |-> 0, body |-> <<>>, rest |-> Drop(stream, nl)]

\* ================================================================ claims
\* handler c has left its loop (the finally clause runs or has run)
Leaving(c) ==
  \/ pc[c] \in {"rm_lock", "rm_body", "done"}
  \/ pc[c] \in {"bc_lock", "bc_loop"} /\ bc[c].ret = "rm_exit"

\* handler c was started and is in its loop
Running(c) == pc[c] # "idle" /\ ~Leaving(c)

ExceptConn(s, excl) == SelectSeq(s, LAMBDA x : x # excl)

\* the last component of a declared name
LastComponent(name) ==
  LET parts == SplitMax(name, "/", Len(name)) IN parts[Len(parts)]

StoredAt(name) == Resolve(TransferDir \o <<"/">> \o name)

\* C1: a handler that has left its loop goes on until it is over: as long as
\* the process runs it has terminated, or it can take its next step, or it
\* waits for the registry lock while another thread holds it.
C1_LeaveCompletes ==
  \A c \in Conn :
    (Leaving(c) /\ ~crashed)
      => \/ pc[c] = "done"
         \/ lock \notin {NoThread, c}
         \/ ENABLED ChatThread(c)

\* C2: when the client has sent FILE|name|n, the n bytes of the body and
\* whatever follows, and the handler has read the stream to its end, the
\* stored object has length n.
C2_StoredLengthExact ==
  \A c \in Conn :
    (/\ plan[c].reqs # <<>>
     /\ plan[c].reqs[1].op = "file"
     /\ Len(plan[c].reqs[1].data) = plan[c].reqs[1].size
     /\ plan[c].end = "fin"
     /\ Leaving(c))
    => /\ StoredAt(LastComponent(plan[c].reqs[1].name)) \in DOMAIN fs
       /\ Len(fs[StoredAt(LastComponent(plan[c].reqs[1].name))]) = plan[c].reqs[1].size

\* C7: whenever the registry lock is free, the registered sessions are exactly
\* the connections whose handshake is over (the handler was started) and whose
\* stream has not closed or failed (the handler is still in its loop).
C7_RegistryExact ==
  (lock = NoThread /\ ~crashed)
    => \A c \in Conn : (IndexOf(clients, c) > 0) <=> Running(c)

\* C8: a broadcast attempts its sends on exactly the sessions that were
\* registered when it took the lock, in order and without the excluded one,
\* and never on a handle that was closed or is no longer registered.
C8_BroadcastExact ==
  \A t \in Threads :
    /\ bc[t].st = "running"
         => bc[t].wrote = ExceptConn(Take(bc[t].snap, bc[t].i - 1), bc[t].excl)
    /\ bc[t].st = "done" => bc[t].wrote = ExceptConn(bc[t].snap, bc[t].excl)
    /\ ~bc[t].stale

\* a handler's broadcast of a chat line went to two sessions, the sender too
C8_Witness ==
  \E c \in Conn :
    /\ bc[c].st = "done"
    /\ bc[c].msg = ChatLine
    /\ Len(bc[c].snap) = 2
    /\ bc[c].wrote = bc[c].snap
    /\ IndexOf(bc[c].wrote, c) > 0
    /\ \A d \in Range(bc[c].wrote) : ChatLine \in Range(out[d])

\* C10: a transport error on a connection never ends the accept loop.
C10_AcceptorSurvives == ~crashed

RECURSIVE Flat(_)
Flat(payloads) == IF payloads = <<>> THEN <<>> ELSE Head(payloads) \o Flat(Tail(payloads))

\* the lines of a text that ends with a newline
LinesOf(text) == SplitMax(Take(text, Len(text) - 1), "\n", Len(text))

\* no other connection uploads to the name
NoOtherUpload(c, name) ==
  \A d \in Conn \ {c} : \A i \in 1..Len(plan[d].reqs) :
    plan[d].reqs[i].op = "upload"
      => LastComponent(plan[d].reqs[i].name) # LastComponent(name)

\* connection c uploads a payload of the declared size and downloads the
\* same name, the upload was acknowledged and the session is over
RoundTripDone(c) ==
  LET r == plan[c].reqs IN
  /\ Len(r) = 2
  /\ r[1].op = "upload" /\ Len(r[1].data) = r[1].size
  /\ r[2].op = "download" /\ r[2].name = r[1].name
  /\ NoOtherUpload(c, r[1].name)
  /\ pc[c] = "done" /\ peer[c] = "eof"
  /\ out[c] # <<>> /\ out[c][1] = OkLine(LastComponent(r[1].name))

\* C3: after an acknowledged upload of X with payload P and no other upload of
\* X, the reply to the download of X is FOUND|len(P) and then exactly P.
C3_RoundTrip ==
  \A c \in Conn :
    RoundTripDone(c)
      => LET d == ClientDownload(Flat(Tail(out[c]))) IN
         /\ d.kind = "found"
         /\ d.size = Len(plan[c].reqs[1].data)
         /\ d.body = plan[c].reqs[1].data
         /\ d.rest = <<>>

C3_Witness ==
  \E c, d \in Conn :
    /\ RoundTripDone(c) /\ plan[c].reqs[1].data = <<>>
    /\ Flat(Tail(out[c])) = FoundLine(0)
    /\ RoundTripDone(d) /\ plan[d].reqs[1].data = <<"z">>
    /\ Flat(Tail(out[d])) = FoundLine(1) \o <<"z">>

\* C4: a download that was answered FOUND|n has sent exactly n bytes after
\* that line, whatever the other sessions do.
C4_DownloadFramed ==
  \A c \in Conn : hl[c].res = "found" => hl[c].off = hl[c].size

\* C5: every stored object lies directly in the transfer directory, and the
\* path a handler writes or reads is the transfer directory joined with the
\* last component of the declared name.
C5_InsideTransferDir ==
  /\ \A p \in DOMAIN fs : ParentOf(p) = Resolve(TransferDir)
  /\ \A c \in Conn :
       /\ pc[c] \in {"fs_write", "fs_getsize", "fs_found", "fs_dl_read"}
            => /\ Resolve(FilePath(hl[c].name)) = StoredAt(LastComponent(hl[c].name))
               /\ ParentOf(Resolve(FilePath(hl[c].name))) = Resolve(TransferDir)
       /\ pc[c] \in {"rf_loop", "rf_close"}
            => /\ Resolve(ChatOutPath(hl[c].name)) = StoredAt(LastComponent(hl[c].name))
               /\ ParentOf(Resolve(ChatOutPath(hl[c].name))) = Resolve(TransferDir)

C5_Witness ==
  \E c \in Conn :
    /\ hl[c].name = NameE
    /\ hl[c].res = "found"
    /\ DOMAIN fs = {Resolve(TransferDir) \o <<<<"e">>>>}
    /\ fs[Resolve(TransferDir) \o <<<<"e">>>>] = <<"z">>

\* C6: the reply to LIST is the N listed names, one per line, and then the
\* line DONE, and nothing else.
C6_ListExact ==
  \A c \in Conn :
    hl[c].res = "list" => LinesOf(hl[c].msg) = hl[c].files \o <<DoneLine>>

\* C6, as the code has it: the reply is the names joined by newlines, then a
\* newline and DONE: the N names of the directory, each once, one per line,
\* and then DONE when N >= 1, and an empty line and then DONE when N = 0.
C6_ListJoined ==
  [][\A c \in Conn :
       (pc[c] = "fs_list" /\ pc'[c] = "fs_hdr")
         => LET files == hl'[c].files
                lines == LinesOf(out'[c][Len(out'[c])])
            IN
            /\ Range(files) = DirNames
            /\ Len(files) = Cardinality(DirNames)
            /\ lines = (IF files = <<>> THEN <<<<>>>> ELSE files) \o <<DoneLine>>]_vars

C6_Witness ==
  \E c, d \in Conn :
    /\ hl[c].res = "list" /\ hl[c].files = <<>>
    /\ out[c] = <<<<"\n">> \o DoneLine \o <<"\n">>>>
    /\ hl[d].res = "list" /\ hl[d].files = <<NameA>>
    /\ out[d][Len(out[d])] = NameA \o <<"\n">> \o DoneLine \o <<"\n">>

\* an upload header with the wrong number of fields or a size that is not a
\* decimal integer
MalformedUpload(line) ==
  /\ StartsWith(line, UPLOAD_MARK)
  /\ \/ Len(SplitMax(line, "|", 2)) # 3
     \/ ~IntOk(SplitMax(line, "|", 2)[Len(SplitMax(line, "|", 2))])

\* C9: a handler of the file server that has read a malformed upload header
\* sends an ERROR| line to its connection, unless the peer has reset it.
C9_MalformedGetsError ==
  \A c \in Conn :
    MalformedUpload(hl[c].line)
      => \/ peer[c] = "reset"
         \/ pc[c] = "fs_send" /\ Head(hl[c].msg) = "ERROR|"
         \/ \E i \in 1..Len(out[c]) : Head(out[c][i]) = "ERROR|"

\* C11: a send that fails in a broadcast does not end it: when the broadcast
\* is over a send was attempted on every session of its snapshot but the
\* excluded one, every session whose send did not fail has the payload, and a
\* session whose send failed is still registered unless its own handler has
\* left its loop; no thread ends by an exception while it is in broadcast.
C11_FanOutSurvives ==
  \A t \in Threads :
    /\ bc[t].st = "done"
         => /\ bc[t].wrote = ExceptConn(bc[t].snap, bc[t].excl)
            /\ \A d \in Range(bc[t].wrote) \ Range(bc[t].failed) :
                 bc[t].msg \in Range(out[d])
    /\ \A d \in Range(bc[t].failed) : IndexOf(clients, d) > 0 \/ Leaving(d)
    /\ pc[t] = "crashed" => bc[t].st \in {"idle", "done"}

\* the send to the first of two sessions failed, the second has the payload
C11_Witness ==
  \E t \in Threads :
    /\ bc[t].st = "done"
    /\ Len(bc[t].snap) = 2
    /\ bc[t].failed = <<bc[t].snap[1]>>
    /\ bc[t].wrote = bc[t].snap
    /\ bc[t].msg \in Range(out[bc[t].snap[2]])
    /\ IndexOf(clients, bc[t].snap[1]) > 0

\* connection c declares more bytes than it sends for its upload, and closes
ShortUploadDone(c) ==
  LET r == plan[c].reqs IN
  /\ Len(r) = 1
  /\ r[1].op = "upload" /\ Len(r[1].data) < r[1].size
  /\ NoOtherUpload(c, r[1].name)
  /\ plan[c].end = "fin"
  /\ pc[c] = "done" /\ peer[c] = "eof"

\* C12: when the stream closes after k < n bytes of the body of an upload, the
\* stored object holds those k bytes, and the upload is not acknowledged with
\* the line OK|name of a complete upload.
C12_TruncationSignaled ==
  \A c \in Conn :
    ShortUploadDone(c)
      => /\ StoredAt(LastComponent(plan[c].reqs[1].name)) \in DOMAIN fs
         /\ fs[StoredAt(LastComponent(plan[c].reqs[1].name))] = plan[c].reqs[1].data
         /\ OkLine(LastComponent(plan[c].reqs[1].name)) \notin Range(out[c])

\* the handler of connection c has read the whole body of an upload whose
\* path cannot be opened for writing (the name is empty or names a directory)
StorageErrorMet(c) ==
  /\ StartsWith(hl[c].line, UPLOAD_MARK)
  /\ ~MalformedUpload(hl[c].line)
  /\ Len(hl[c].buf) = hl[c].size
  /\ ~CanOpenWrite(FilePath(hl[c].name))
  /\ pc[c] \notin {"fs_recv_all", "fs_open"}
  /\ peer[c] # "reset"

\* C13: an upload that the store cannot take is answered with an error on its
\* connection, and the connection stays open for the next request.
C13_StorageErrorReported ==
  \A c \in Conn :
    StorageErrorMet(c)
      => /\ sock[c] = "open" \/ (peer[c] = "eof" /\ inbuf[c] = <<>>)
         /\ \/ pc[c] = "fs_send" /\ Head(hl[c].msg) = "ERROR|"
            \/ \E i \in 1..Len(out[c]) : Head(out[c][i]) = "ERROR|"

\* C14: a thread that is about to write to a socket in broadcast does not
\* hold the registry lock.
C14_WritesOutsideLock ==
  \A t \in Threads :
    (pc[t] = "bc_loop" /\ bc[t].i <= Len(clients)) => lock # t

\* C15: while a connection waits to be accepted, the acceptor is not blocked
\* in the read of another connection's nickname.
C15_AcceptorNotBlocked ==
  (/\ ~crashed
   /\ pc[MAIN] = "nick_recv"
   /\ ~RecvReady(acc.cur))
  => ~\E d \in Conn : peer[d] = "open" /\ sock[d] = "none"

\* the payloads written to d that hold chat lines of sender c
FromSender(c, d) ==
  SelectSeq(out[d], LAMBDA m : m # <<>> /\ m[1] \in {LineCh[c][1], LineCh[c][2]})

\* C16: the payloads of one sender reach every recipient in the order of the
\* sender's stream: of two payloads written to d, the earlier one starts
\* earlier in the stream, and no line is written twice.
C16_SenderOrder ==
  \A c, d \in Conn :
    plan[c] = TwoLines(c)
      => \A i, j \in 1..Len(FromSender(c, d)) :
           i < j => IndexOf(Stream(plan[c].reqs), FromSender(c, d)[i][1])
                      + Len(FromSender(c, d)[i])
                    <= IndexOf(Stream(plan[c].reqs), FromSender(c, d)[j][1])

\* recipient d has the two lines of sender c, in two payloads, and a line of
\* its own
C16_Witness ==
  \E c, d \in Conn :
    /\ c # d
    /\ plan[c] = TwoLines(c) /\ plan[d] = TwoLines(d)
    /\ FromSender(c, d) = <<LineOf(c, 1), LineOf(c, 2)>>
    /\ FromSender(d, d) # <<>>
    /\ FromSender(c, c) = <<LineOf(c, 1), LineOf(c, 2)>>

\* connection c has uploaded P1 and then P2 to one name and listed the
\* directory, both uploads were acknowledged, and nobody else uploads to the name
OverwriteDone(c) ==
  /\ plan[c] = TwoUploads
  /\ NoOtherUpload(c, NameA)
  /\ pc[c] = "done" /\ peer[c] = "eof"
  /\ Len(out[c]) = 3
  /\ out[c][1] = OkLine(NameA) /\ out[c][2] = OkLine(NameA)

\* C17: after uploads of P1 and then P2 to one name the object of that name
\* holds exactly P2, and the listing shows the name once.
C17_Overwritten ==
  \A c \in Conn :
    OverwriteDone(c)
      => /\ StoredAt(NameA) \in DOMAIN fs
         /\ fs[StoredAt(NameA)] = plan[c].reqs[2].data
         /\ Cardinality({i \in 1..Len(LinesOf(out[c][3])) :
                           LinesOf(out[c][3])[i] = NameA}) = 1
         /\ hl[c].res = "list"

\* P2 = w has replaced P1 = xy, and the listing is a and DONE
C17_Witness ==
  \E c \in Conn :
    /\ OverwriteDone(c)
    /\ fs[StoredAt(NameA)] = <<"w">>
    /\ out[c][3] = NameA \o <<"\n">> \o DoneLine \o <<"\n">>

\* handler c has run the unregister-and-close step of remove_client
Removed(c) ==
  \/ pc[c] = "done"
  \/ pc[c] \in {"bc_lock", "bc_loop"} /\ bc[c].ret = "rm_exit"

\* the step has run at most once and has removed and closed its own session only
UnregisteredOnce ==
  \A c \in Conn :
    /\ Removed(c) => IndexOf(clients, c) = 0 /\ sock[c] = "closed"
    /\ pc[c] \in {"rm_lock", "rm_body"} => sock[c] = "open"
    /\ sock[c] = "closed" => Removed(c)
    /\ (Running(c) /\ lock = NoThread)
         => IndexOf(clients, c) > 0 /\ Len(nicknames) = Len(clients)

\* C18: whatever ended the handler's loop, the unregister-and-close step runs
\* once: it has run at most once and on its own session only, and a handler
\* that is about to run it does not wait for a lock that is never released.
C18_RemovedExactlyOnce ==
  /\ UnregisteredOnce
  /\ \A c \in Conn :
       pc[c] = "rm_lock" => ~(lock \in Conn /\ pc[lock] = "bc_lock")

\* the length of the header of an upload request, its newline included
HeaderLen(r) == Len(Encode(r)) - Len(r.data)

\* connection c sends one upload with all of its body and nothing after it,
\* and the first segment of the stream holds the whole header
HeaderInFirstRead(c) ==
  LET r == plan[c].reqs IN
  /\ Len(r) = 1
  /\ r[1].op = "file" /\ Len(r[1].data) = r[1].size
  /\ plan[c].wait /\ plan[c].end = "fin"
  /\ plan[c].cuts = <<>> \/ plan[c].cuts[1] >= HeaderLen(r[1])

\* C19: when the read that delivers the header delivers j bytes of the body
\* too, the handler holds these j bytes as the start of the object and still
\* has n - j bytes to read, and the stored object is the n bytes of the body.
C19_InitialBytesKept ==
  \A c \in Conn :
    HeaderInFirstRead(c)
      => LET r == plan[c].reqs[1] IN
         /\ pc[c] = "rf_loop"
              => /\ hl[c].buf = Take(r.data, Len(hl[c].buf))
                 /\ hl[c].rem = r.size - Len(hl[c].buf)
                 /\ hl[c].buf \o inbuf[c] = Take(r.data, Len(hl[c].buf) + Len(inbuf[c]))
         /\ pc[c] \in {"up_lock", "up_lookup"} \/ Leaving(c) \/ bc[c].st # "idle"
              => /\ StoredAt(LastComponent(r.name)) \in DOMAIN fs
                 /\ fs[StoredAt(LastComponent(r.name))] = r.data

\* the read of the header has delivered the first of two body bytes (j = 1):
\* the handler holds it, has one byte to read, and the client has yet to send it
C19_Witness ==
  \E c \in Conn :
    /\ HeaderInFirstRead(c)
    /\ plan[c].reqs[1].size = 2
    /\ pc[c] = "rf_loop"
    /\ hl[c].buf = <<"x">>
    /\ hl[c].rem = 1
    /\ inbuf[c] = <<>>
    /\ script[c] = <<DataEv(<<"y">>), FinEv>>
    /\ StoredAt(LastComponent(plan[c].reqs[1].name)) \in DOMAIN fs

\* connection c sends one complete upload, then maybe chat lines, and closes
UploadThenChat(c) ==
  LET r == plan[c].reqs IN
  /\ r # <<>>
  /\ r[1].op = "file" /\ Len(r[1].data) = r[1].size
  /\ \A i \in 2..Len(r) : r[i].op = "chat"
  /\ plan[c].wait /\ plan[c].end = "fin"

\* what the server writes to c when it takes the stream of c line by line
ExpectedOut(c) ==
  LET r == plan[c].reqs IN
  {NickPrompt, ConnectedLine, JoinMsg(plan[c].nick), LeftMsg(plan[c].nick),
   UploadMsg(plan[c].nick, LastComponent(r[1].name), r[1].size)}
    \cup {r[i].data : i \in 2..Len(r)}

\* C20: however the stream is cut into reads, the FILE| line is taken as an
\* upload header and announced, every other line is broadcast as a chat
\* payload, and nothing else (no error line, no header or body bytes) is
\* written.
C20_SegmentationIndependent ==
  \A c \in Conn :
    (UploadThenChat(c) /\ Leaving(c))
      => /\ UploadMsg(plan[c].nick, LastComponent(plan[c].reqs[1].name),
                      plan[c].reqs[1].size) \in Range(out[c])
         /\ \A i \in 2..Len(plan[c].reqs) : plan[c].reqs[i].data \in Range(out[c])
         /\ Range(out[c]) \subseteq ExpectedOut(c)

\* the place of the first payload of out[c] that is in M, 0 if none
FirstIn(c, M) ==
  IF \E i \in 1..Len(out[c]) : out[c][i] \in M
  THEN CHOOSE i \in 1..Len(out[c]) :
         out[c][i] \in M /\ \A j \in 1..(i - 1) : out[c][j] \notin M
  ELSE 0

\* the join notices among the payloads sent to c
JoinsOf(c) == {m \in Range(out[c]) : m # <<>> /\ m[1] = "[join] "}

\* C21: the steps of a handshake happen in their order. A registered session
\* was sent the prompt; when the join notice has been broadcast it was sent
\* to every session registered when the broadcast took the lock, the new one
\* included; a session
\* that has its confirmation line has the prompt and a join notice before it;
\* and a handler runs only for a session that has its confirmation line and
\* was registered.
C21_HandshakeOrder ==
  /\ \A c \in Conn :
       /\ IndexOf(clients, c) > 0 => NickPrompt \in Range(out[c])
       /\ Confirmed(c)
            => /\ 0 < FirstIn(c, {NickPrompt})
               /\ FirstIn(c, {NickPrompt}) < FirstIn(c, JoinsOf(c))
               /\ FirstIn(c, JoinsOf(c)) < FirstIn(c, {ConnectedLine})
       /\ pc[c] # "idle"
            => /\ Confirmed(c)
               /\ IndexOf(clients, c) > 0 \/ Removed(c)
  /\ pc[MAIN] \in {"conf_send", "spawn"}
       => /\ IndexOf(clients, acc.cur) > 0
          /\ bc[MAIN].st = "done"
          /\ bc[MAIN].msg = JoinMsg(acc.nick)
          /\ bc[MAIN].wrote = bc[MAIN].snap
          /\ acc.cur \in Range(bc[MAIN].snap)
          /\ pc[acc.cur] = "idle"
          /\ pc[MAIN] = "spawn" <=> Confirmed(acc.cur)
  /\ pc[MAIN] \in {"nick_send", "nick_recv", "reg_lock", "reg_clients"}
       => IndexOf(clients, acc.cur) = 0 /\ pc[acc.cur] = "idle"

\* the handler of the second session has started: the session has the
\* prompt, its join notice and the confirmation line, in this order, and the
\* first session has the join notice too
C21_Witness ==
  \E c, d \in Conn :
    /\ clients = <<d, c>>
    /\ pc[c] = "recv"
    /\ out[c] = <<NickPrompt, JoinMsg(NickOf(c)), ConnectedLine>>
    /\ JoinMsg(NickOf(c)) \in Range(out[d])

\* the positions at which a thread requests the registry lock
LockRequests == {"reg_lock", "up_lock", "rm_lock", "bc_lock"}

\* C22: no thread requests the registry lock while it holds it.
C22_NoRequestWhileHeld ==
  \A t \in Threads : pc[t] \in LockRequests => lock # t

\* connection c sends one upload, with a payload of the declared size, and
\* the upload was acknowledged
UploadCompleted(c) ==
  LET r == plan[c].reqs IN
  /\ r # <<>>
  /\ r[1].op = "upload" /\ Len(r[1].data) = r[1].size
  /\ \A i \in 2..Len(r) : r[i].op # "upload"
  /\ out[c] # <<>> /\ out[c][1] = OkLine(LastComponent(r[1].name))

\* C23: when two sessions have uploaded to one sanitized name and both
\* uploads have completed, the stored object is the whole payload of one of
\* the two.
C23_OneUploadWins ==
  \A c, d \in Conn :
    (/\ c # d
     /\ UploadCompleted(c) /\ UploadCompleted(d)
     /\ LastComponent(plan[c].reqs[1].name) = LastComponent(plan[d].reqs[1].name))
    => LET path == Resolve(FilePath(plan[c].reqs[1].name)) IN
       /\ path \in DOMAIN fs
       /\ fs[path] \in {plan[c].reqs[1].data, plan[d].reqs[1].data}

\* the nicknames the handshake can read from connection c: what the client
\* sends as its nickname, with any bytes of its requests that arrive in the
\* same read, stripped
SuppliedNicks(c) ==
  {Strip(plan[c].nick \o Take(Stream(plan[c].reqs), k)) :
     k \in 0..Len(Stream(plan[c].reqs))}

\* the notice starts with tag, a nickname that c supplied, and rest
CarriesOwnNick(c, msg, tag, rest) ==
  \E n \in SuppliedNicks(c) : StartsWith(msg, <<tag>> \o n \o <<rest>>)

\* C24: whenever the registry lock is free, clients and nicknames have the
\* same length, no handle is in clients twice and nicknames[i] is the nickname
\* that clients[i] supplied; the upload notice and the left notice that a
\* handler builds carry the nickname of its own session.
C24_RegistryAligned ==
  /\ lock = NoThread
       => /\ Len(clients) = Len(nicknames)
          /\ \A i, j \in 1..Len(clients) : clients[i] = clients[j] => i = j
          /\ \A i \in 1..Len(clients) : nicknames[i] \in SuppliedNicks(clients[i])
  /\ \A c \in Conn :
       (bc[c].st # "idle" /\ bc[c].ret = "recv" /\ bc[c].msg[1] = "[upload] ")
         => CarriesOwnNick(c, bc[c].msg, "[upload] ", " uploaded file: ")
  /\ \A c \in Conn :
       (bc[c].st # "idle" /\ bc[c].ret = "rm_exit")
         => CarriesOwnNick(c, bc[c].msg, "[left] ", " left the chat.\n")

\* two sessions with different nicknames are registered and the lock is free;
\* the second has broadcast the notice of its upload, and the first has gone
\* on to build its left notice
C24_Witness ==
  \E c, d \in Conn :
    /\ c # d
    /\ clients = <<d, c>> /\ nicknames = <<NickOf(d), NickOf(c)>>
    /\ lock = NoThread
    /\ bc[c].st = "done"
    /\ bc[c].msg = UploadMsg(NickOf(c), <<"f">>, 1)
    /\ pc[d] = "rm_lock"

====
